---- MODULE Spec2Model ----
(***************************************************************************)
(* Model of the agenticore job execution engine:                           *)
(*   - jobs.py    the job store (create_job, get_job, update_job,          *)
(*                cancel_job)                                              *)
(*   - runner.py  submit_job, run_job and _execute_claude, one action per  *)
(*                statement group between two persisted writes             *)
(*   - repos.py   ensure_clone with its flock and Redis lock modes         *)
(*                                                                         *)
(* Spec / FairSpec : one job driven through run_job, interleaved with      *)
(*                   cancel_job calls and with the subprocess' own exit.   *)
(* RepoSpec        : concurrent and successive ensure_clone calls for one  *)
(*                   repository URL.                                       *)
(* SidSpec         : one job run to its end over every stdout of at most   *)
(*                   MaxLines lines (_extract_session_id).                 *)
(* StoreSpec       : create_job, get_job, update_job and cancel_job over   *)
(*                   the Redis hash and the job file, with Redis commands  *)
(*                   that may fail and keys that may expire.               *)
(* ListSpec        : create_job, update_job and list_jobs over up to three *)
(*                   jobs, with Redis answering and keys that may expire.  *)
(* DictSpec        : Job.to_dict followed by Job.from_dict on one Job.     *)
(* RaceSpec        : update_job calls of a runner and cancel_job calls of  *)
(*                   another process on one job, each split into its read  *)
(*                   and its save.                                         *)
(* TextSpec        : the output and error texts run_job persists on each   *)
(*                   of its paths, by their lengths.                       *)
(* BranchSpec      : _prepare_job_repo and get_default_branch over the     *)
(*                   results of git symbolic-ref.                          *)
(*                                                                         *)
(* Python Optional[T] values are sets with at most one element:            *)
(* Absent is None, Some(v) is the value v.                                 *)
(***************************************************************************)
EXTENDS Integers, Sequences, FiniteSets, TLC

\* ------------------------------------------------------------------------
\* Bounds of the model
\* ------------------------------------------------------------------------
MaxCancels == 2      \* cancel_job calls issued in one behaviour
NumCallers == 2      \* concurrent callers of ensure_clone
MaxCalls == 3        \* ensure_clone calls started in one behaviour
MaxLines == 2        \* lines of a subprocess stdout
MaxStoreCalls == 4   \* calls of the job store API in one behaviour

\* ------------------------------------------------------------------------
\* Values
\* ------------------------------------------------------------------------
Absent == {}
Some(v) == {v}

J == "j1"                         \* the id uuid4 gives the submitted job
JobIds == {"j1", "missing"}       \* "missing" is never created
ListIds == {"j1", "j2", "j3"}     \* the ids uuid4 gives successive create_job calls
StoreIds == JobIds \cup ListIds   \* the ids the backends are asked about
NoJob == [absent |-> TRUE]        \* get_job(...) is None

TerminalStatuses == {"succeeded", "failed", "cancelled", "expired"}
Terminal(s) == s \in TerminalStatuses

ProfileNames == {"code", "review", "nope", "ghost"}   \* the last two are not loadable
ErrMsgs == {"", "boom"}                      \* str(e) of an exception
SIGTERM == 15

VARIABLES
    \* --- job store and runner (jobs.py, runner.py) ---
    store,        \* job id -> persisted record or NoJob
    clock,        \* value the next _now_iso() returns
    pc,           \* position of run_job for job J
    lstatus,      \* local variable `status` of _execute_claude
    proc,         \* the subprocess: "none" | "running" | "exited"
    returncode,   \* proc.returncode once exited
    stdout,       \* the lines the subprocess printed on stdout
    stderrText,   \* decoded stderr of the subprocess
    sigterms,     \* SIGTERMs delivered to the subprocess
    autoPrCalls,  \* number of create_auto_pr invocations
    prResult,     \* what create_auto_pr gave: "none" | "url" | "nourl" | "raised"
    traceEnds,    \* number of end_job_trace calls
    failedStep,   \* the step of run_job that failed, "none" if none (history)
    ran,          \* the steps of run_job that were entered (history)
    cancelCount,  \* number of cancel_job calls so far
    lastCancelId, \* argument of the last cancel_job call
    lastCancelRet,\* job id -> what the last cancel_job on it returned
    noopCancels,  \* cancel_job calls that found a terminal record (history)
    ljob,         \* local variable `job` of run_job and _execute_claude
    submitRet,    \* what submit_job returned to its caller, NoJob before that
    \* --- repository cache (repos.py) ---
    sharedFs,     \* bool(cfg.repos.shared_fs_root): distributed lock mode
    cpc,          \* caller -> position inside ensure_clone
    flock,        \* holder of the exclusive flock on .lock, 0 if free
    rkey,         \* the Redis lock key: NoKey or [owner, stale]
    repo,         \* repo/ directory: "absent" | "partial" | "cloned"
    op,           \* caller -> git operation chosen by _do_clone_or_fetch ("none" outside a call)
    hasLock,      \* caller -> _redis_lock_acquire returned True
    deadlinePassed, \* caller -> time.monotonic() >= deadline
    fnRuns,       \* caller -> runs of _do_clone_or_fetch in the current call
    calls,        \* ensure_clone calls started so far
    outcome,      \* caller -> "none" | "returned" | "raised" of the last call
    cloneOk,      \* number of git clone runs that exited 0
    enteredAfterClone, \* caller -> it entered _do_clone_or_fetch after a successful clone
    \* --- the two backends of the job store (jobs.py) ---
    rstate,       \* _redis_checked/_redis_client: "unchecked" | "client" | "none"
    rhash,        \* job id -> the Redis hash under its key (EmptyDict: no key)
    jfile,        \* job id -> the dict in <id>.json, or NoFile
    storeCalls,   \* calls of the job store API so far
    lastCall,     \* [op, id, kw, fault] of the last call of the job store API
    lastRet,      \* what that call returned: a Job, NoJob, or Raised
    \* --- update_job and cancel_job calls in progress (jobs.py) ---
    wpc,          \* writer -> position inside its call: "idle" | "check" | "read" | "save"
    wjob,         \* writer -> local variable `job` of update_job as get_job returned it
    wkw           \* writer -> the keyword arguments of its update_job call

jobVars == <<store, clock, pc, lstatus, proc, returncode, stdout, stderrText,
             sigterms, autoPrCalls, prResult, traceEnds, failedStep, ran,
             cancelCount, lastCancelId, lastCancelRet, noopCancels,
             ljob, submitRet>>
callVars == <<ljob, submitRet>>
cancelVars == <<cancelCount, lastCancelId, lastCancelRet, noopCancels>>
repoVars == <<sharedFs, cpc, flock, rkey, repo, op, hasLock, deadlinePassed,
              fnRuns, calls, outcome, cloneOk, enteredAfterClone>>
writerVars == <<wpc, wjob, wkw>>
backendVars == <<rstate, rhash, jfile, storeCalls, lastCall, lastRet,
                 writerVars>>
vars == <<jobVars, repoVars, backendVars>>

Callers == 1..NumCallers
\* the processes that write one job: the one running run_job and another
\* one serving a client
Writers == {"runner", "client"}
\* bool(cfg.repos.shared_fs_root): TRUE selects the Redis lock, FALSE flock
LockModes == BOOLEAN
NoKey == [present |-> FALSE]

\* ------------------------------------------------------------------------
\* jobs.py
\* ------------------------------------------------------------------------

\* create_job: a fresh record, status queued, created_at = now
NewJob(id, profile, repo_url, mode, session_id, now) ==
    [id |-> id, repo_url |-> repo_url, base_ref |-> "main", task |-> "task",
     profile |-> profile, status |-> "queued", mode |-> mode,
     exit_code |-> Absent, session_id |-> session_id, pr_url |-> Absent,
     output |-> Absent, error |-> Absent,
     created_at |-> now, started_at |-> Absent, ended_at |-> Absent,
     ttl_seconds |-> 86400, pid |-> Absent]

\* update_job's loop: setattr for every keyword that is a Job field
ApplyKwargs(job, kw) ==
    [f \in DOMAIN job |-> IF f \in DOMAIN kw THEN kw[f] ELSE job[f]]

\* update_job: get_job, apply, _save_job; None when there is no record
UpdateJob(st, id, kw) ==
    IF st[id] = NoJob THEN st
    ELSE [st EXCEPT ![id] = ApplyKwargs(st[id], kw)]

Init ==
    /\ store = [id \in JobIds |-> NoJob]
    /\ clock = 1
    /\ pc = "idle"
    /\ lstatus = "none"
    /\ proc = "none"
    /\ returncode = Absent
    /\ stdout = <<>>
    /\ stderrText = ""
    /\ sigterms = 0
    /\ autoPrCalls = 0
    /\ prResult = "none"
    /\ traceEnds = 0
    /\ failedStep = "none"
    /\ ran = {}
    /\ cancelCount = 0
    /\ lastCancelId = "none"
    /\ lastCancelRet = [id \in JobIds |-> NoJob]
    /\ noopCancels = 0
    /\ ljob = [absent |-> TRUE]
    /\ submitRet = [absent |-> TRUE]
    /\ sharedFs \in LockModes
    /\ cpc = [c \in Callers |-> "idle"]
    /\ flock = 0
    /\ rkey = NoKey
    /\ repo = "absent"
    /\ op = [c \in Callers |-> "none"]
    /\ hasLock = [c \in Callers |-> FALSE]
    /\ deadlinePassed = [c \in Callers |-> FALSE]
    /\ fnRuns = [c \in Callers |-> 0]
    /\ calls = 0
    /\ outcome = [c \in Callers |-> "none"]
    /\ cloneOk = 0
    /\ enteredAfterClone = [c \in Callers |-> FALSE]
    /\ rstate = "unchecked"
    /\ rhash = [id \in StoreIds |-> [k \in {} |-> ""]]
    /\ jfile = [id \in StoreIds |-> [absent |-> TRUE]]
    /\ storeCalls = 0
    /\ lastCall = [op |-> "none", id |-> "none", kw |-> [k \in {} |-> ""],
                   fault |-> "none"]
    /\ lastRet = NoJob
    /\ wpc = [w \in Writers |-> "idle"]
    /\ wjob = [w \in Writers |-> NoJob]
    /\ wkw = [w \in Writers |-> [k \in {} |-> ""]]

\* get_profile(name): the loaded profile, or None for a name no directory has
ProfileFound(name) == name \in {"code", "review"}
\* Profile.auto_pr of the loaded profile
ProfileAutoPr(name) == name = "code"
\* Profile.claude.timeout of the loaded profile, in seconds
ProfileTimeout(name) == IF name = "code" THEN 3600 ELSE 600

\* cancel_job line 250, mutated: the terminal check is dropped
CancelActsAlways(job) == TRUE
\* cancel_job line 250: only a queued or running job is cancelled
CancelActs(job) == job.status \in {"queued", "running"}

\* _maybe_auto_pr line 129, mutated: the status test is dropped
AutoPrWantedAnyStatus(status, profile, repo_url) ==
    ProfileAutoPr(profile) /\ repo_url # ""
\* _maybe_auto_pr line 129: the guard in front of create_auto_pr
AutoPrWanted(status, profile, repo_url) ==
    status = "succeeded" /\ ProfileAutoPr(profile) /\ repo_url # ""

\* run_job line 151, mutated: the message does not name the profile
ProfileNotFoundUnnamed(name, now) ==
    [status |-> "failed", error |-> Some("Profile not found"),
     ended_at |-> Some(now)]
\* run_job line 151: the fields written when get_profile gave None
ProfileNotFound(name, now) ==
    [status |-> "failed", error |-> Some("Profile not found: " \o name),
     ended_at |-> Some(now)]

\* run_job line 163, mutated: the error is recorded but the status is not
CloneFailedKeepsStatus(msg, now) ==
    [error |-> Some("Clone failed: " \o msg), ended_at |-> Some(now)]
\* run_job line 163: the fields written when _prepare_job_repo raised
CloneFailed(msg, now) ==
    [status |-> "failed", error |-> Some("Clone failed: " \o msg),
     ended_at |-> Some(now)]

\* run_job lines 169-171: the fields written when materialize_profile raised
MaterializeFailed(msg, now) ==
    [status |-> "failed",
     error |-> Some("Profile materialization failed: " \o msg),
     ended_at |-> Some(now)]

\* ------------------------------------------------------------------------
\* runner.py: _extract_session_id
\* ------------------------------------------------------------------------
\* A line of the subprocess' stdout, by what the loop of lines 75-85 sees:
\*   kind "text"  does not start with "{" after strip()
\*   kind "bad"   starts with "{" but json.loads raises JSONDecodeError
\*   kind "obj"   a JSON object; session_id / sessionId are its values under
\*                these keys: Absent when the key is missing, Some("") for
\*                an empty (falsy) value
TextLine == [kind |-> "text", session_id |-> Absent, sessionId |-> Absent]
BadLine == [kind |-> "bad", session_id |-> Absent, sessionId |-> Absent]
ObjLine(snake, camel) == [kind |-> "obj", session_id |-> snake, sessionId |-> camel]

\* Python truthiness of data.get(key): a missing key and "" are both falsy
Truthy(v) == v # Absent /\ v # Some("")

\* lines 81-83, mutated: only the key session_id is looked up
LineSidSnakeOnly(line) ==
    IF line.kind # "obj" THEN Absent
    ELSE IF Truthy(line.session_id) THEN line.session_id
    ELSE Absent
\* lines 77-85 for one line: data.get("session_id") or data.get("sessionId"),
\* kept only when truthy; Absent means the loop goes on to the line before
LineSid(line) ==
    IF line.kind # "obj" THEN Absent
    ELSE IF Truthy(line.session_id) THEN line.session_id
    ELSE IF Truthy(line.sessionId) THEN line.sessionId
    ELSE Absent

\* the loop over reversed(output_text.splitlines()), from line i downwards
RECURSIVE ScanBack(_, _)
ScanBack(out, i) ==
    IF i = 0 THEN Absent
    ELSE IF LineSid(out[i]) # Absent THEN LineSid(out[i])
    ELSE ScanBack(out, i - 1)

\* _extract_session_id lines 73-86
ExtractSessionId(out) == ScanBack(out, Len(out))

\* ------------------------------------------------------------------------
\* runner.py: submit_job and run_job
\* ------------------------------------------------------------------------

\* lines 260-269, mutated: the sync branch does not await run_job either
SubmitReturnNoAwait(wait, job) == job
\* submit_job lines 260-269 right after create_job: with wait the caller is
\* still awaiting run_job (nothing returned yet), without it create_task
\* only schedules run_job and the created job object is returned
SubmitReturn(wait, job) == IF wait THEN NoJob ELSE job

\* `return await run_job(job)` line 262: the sync caller gets what run_job
\* returns; the background task's result goes to nobody
RunJobReturn(job) == IF store[J].mode = "sync" THEN job ELSE submitRet

\* submit_job: create_job, then run_job (awaited or as a background task)
Submit(profile, repo_url, wait, session_id) ==
    /\ pc = "idle"
    /\ store[J] = NoJob
    /\ store' = [store EXCEPT ![J] =
                   NewJob(J, profile, repo_url,
                          IF wait THEN "sync" ELSE "fire_and_forget",
                          session_id, clock)]
    /\ clock' = clock + 1
    /\ pc' = "start"
    /\ ljob' = store'[J]
    /\ submitRet' = SubmitReturn(wait, store'[J])
    /\ UNCHANGED <<lstatus, proc, returncode, stdout, stderrText, sigterms,
                   autoPrCalls, prResult, traceEnds, failedStep, ran,
                   cancelVars>>
    /\ UNCHANGED <<repoVars, backendVars>>

\* run_job lines 147-153: profile lookup, then the write of status running
RunStart ==
    /\ pc = "start"
    /\ IF ~ProfileFound(store[J].profile)
       THEN /\ store' = UpdateJob(store, J,
                           ProfileNotFound(store[J].profile, clock))
            /\ failedStep' = "profile"
            /\ pc' = "returned"
            /\ ljob' = store'[J]
            /\ submitRet' = RunJobReturn(store'[J])
       ELSE /\ store' = UpdateJob(store, J,
                   [status |-> "running", started_at |-> Some(clock)])
            /\ failedStep' = failedStep
            /\ pc' = IF store[J].repo_url # "" THEN "clone" ELSE "build"
            /\ UNCHANGED callVars
    /\ clock' = clock + 1
    /\ UNCHANGED <<lstatus, proc, returncode, stdout, stderrText, sigterms,
                   autoPrCalls, prResult, traceEnds, ran,
                   cancelVars>>
    /\ UNCHANGED <<repoVars, backendVars>>

\* run_job lines 159-163: _prepare_job_repo (ensure_clone and
\* get_default_branch); any exception becomes "Clone failed: ..."
PrepareRepo(ok, msg) ==
    /\ pc = "clone"
    /\ ran' = ran \cup {"clone"}
    /\ IF ok
       THEN /\ pc' = "materialize"
            /\ UNCHANGED <<store, clock, failedStep, callVars>>
       ELSE /\ store' = UpdateJob(store, J, CloneFailed(msg, clock))
            /\ clock' = clock + 1
            /\ failedStep' = "clone"
            /\ pc' = "returned"
            /\ ljob' = store'[J]
            /\ submitRet' = RunJobReturn(store'[J])
    /\ UNCHANGED <<lstatus, proc, returncode, stdout, stderrText, sigterms,
                   autoPrCalls, prResult, traceEnds,
                   cancelVars>>
    /\ UNCHANGED <<repoVars, backendVars>>

\* run_job lines 165-171: materialize_profile into the clone
Materialize(ok, msg) ==
    /\ pc = "materialize"
    /\ ran' = ran \cup {"materialize"}
    /\ IF ok
       THEN /\ pc' = "build"
            /\ UNCHANGED <<store, clock, failedStep, callVars>>
       ELSE /\ store' = UpdateJob(store, J, MaterializeFailed(msg, clock))
            /\ clock' = clock + 1
            /\ failedStep' = "materialize"
            /\ pc' = "returned"
            /\ ljob' = store'[J]
            /\ submitRet' = RunJobReturn(store'[J])
    /\ UNCHANGED <<lstatus, proc, returncode, stdout, stderrText, sigterms,
                   autoPrCalls, prResult, traceEnds,
                   cancelVars>>
    /\ UNCHANGED <<repoVars, backendVars>>

\* run_job line 173: _build_job_cmd is called outside every try block, so an
\* exception raised in it (or in _build_env) leaves run_job
BuildCmd(ok) ==
    /\ pc = "build"
    /\ ran' = ran \cup {"build"}
    /\ IF ok
       THEN /\ pc' = "spawn"
            /\ failedStep' = failedStep
       ELSE /\ pc' = "raised"
            /\ failedStep' = "build"
    /\ UNCHANGED <<store, clock, lstatus, proc, returncode, stdout, stderrText,
                   sigterms, autoPrCalls, prResult, traceEnds,
                   cancelVars, callVars>>
    /\ UNCHANGED <<repoVars, backendVars>>

\* ------------------------------------------------------------------------
\* runner.py: _execute_claude, _run_subprocess, _maybe_auto_pr
\* ------------------------------------------------------------------------
ProcPid == 4242      \* proc.pid of the spawned subprocess

\* lines 188-195, mutated: the timeout clause does not write exit_code
ExecFailureNoSentinel(kind, msg, now) ==
    IF kind = "timeout"
    THEN [status |-> "failed", error |-> Some("Timeout after " \o msg \o "s"),
          ended_at |-> Some(now)]
    ELSE IF kind = "notfound"
    THEN [status |-> "failed", error |-> Some("Claude binary not found: claude"),
          ended_at |-> Some(now)]
    ELSE [status |-> "failed", error |-> Some(msg), ended_at |-> Some(now)]
\* the three except clauses of _execute_claude, lines 188-204; for a timeout
\* msg is the decimal text of profile.claude.timeout, else it is str(e)
ExecFailure(kind, msg, now) ==
    IF kind = "timeout"
    THEN [status |-> "failed", error |-> Some("Timeout after " \o msg \o "s"),
          exit_code |-> Some(-1), ended_at |-> Some(now)]
    ELSE IF kind = "notfound"
    THEN [status |-> "failed", error |-> Some("Claude binary not found: claude"),
          ended_at |-> Some(now)]
    ELSE [status |-> "failed", error |-> Some(msg), ended_at |-> Some(now)]

\* _run_subprocess line 115: asyncio.create_subprocess_exec
\* result: "ok" | "notfound" (FileNotFoundError) | "error" (any other exception)
Spawn(result, msg) ==
    /\ pc = "spawn"
    /\ ran' = ran \cup {"spawn"}
    /\ IF result = "ok"
       THEN /\ proc' = "running"
            /\ pc' = "pid"
            /\ UNCHANGED <<store, clock, failedStep, ljob>>
       ELSE /\ store' = UpdateJob(store, J, ExecFailure(result, msg, clock))
            /\ clock' = clock + 1
            /\ failedStep' = "spawn"
            /\ pc' = "finally"
            /\ proc' = proc
            /\ ljob' = store'[J]
    /\ UNCHANGED <<lstatus, returncode, stdout, stderrText, sigterms,
                   autoPrCalls, prResult, traceEnds,
                   cancelVars, submitRet>>
    /\ UNCHANGED <<repoVars, backendVars>>

\* _run_subprocess line 122: update_job(job_id, pid=proc.pid)
PersistPid ==
    /\ pc = "pid"
    /\ store' = UpdateJob(store, J, [pid |-> Some(ProcPid)])
    /\ pc' = "wait"
    /\ UNCHANGED <<clock, lstatus, proc, returncode, stdout, stderrText,
                   sigterms, autoPrCalls, prResult, traceEnds, failedStep, ran,
                   cancelVars, callVars>>
    /\ UNCHANGED <<repoVars, backendVars>>

\* the subprocess exits by itself (or on a SIGTERM it received): environment
ProcExit(code, out, err) ==
    /\ proc = "running"
    /\ code = -SIGTERM => sigterms > 0
    /\ proc' = "exited"
    /\ returncode' = Some(code)
    /\ stdout' = out
    /\ stderrText' = err
    /\ UNCHANGED <<store, clock, pc, lstatus, sigterms, autoPrCalls, prResult,
                   traceEnds, failedStep, ran, cancelVars, callVars>>
    /\ UNCHANGED <<repoVars, backendVars>>

\* _run_subprocess line 123: wait_for(proc.communicate()) returns
WaitDone ==
    /\ pc = "wait"
    /\ proc = "exited"
    /\ pc' = "sid"
    /\ UNCHANGED <<store, clock, lstatus, proc, returncode, stdout, stderrText,
                   sigterms, autoPrCalls, prResult, traceEnds, failedStep, ran,
                   cancelVars, callVars>>
    /\ UNCHANGED <<repoVars, backendVars>>

\* _execute_claude lines 188-195: asyncio.TimeoutError from wait_for. The
\* handler only writes the record: the subprocess is not killed.
WaitTimeout ==
    /\ pc = "wait"
    /\ proc = "running"
    /\ store' = UpdateJob(store, J,
                   ExecFailure("timeout",
                               ToString(ProfileTimeout(store[J].profile)), clock))
    /\ clock' = clock + 1
    /\ failedStep' = "timeout"
    /\ pc' = "finally"
    /\ ljob' = store'[J]
    /\ UNCHANGED <<lstatus, proc, returncode, stdout, stderrText, sigterms,
                   autoPrCalls, prResult, traceEnds, ran,
                   cancelVars, submitRet>>
    /\ UNCHANGED <<repoVars, backendVars>>

\* _execute_claude lines 203-204: any other exception out of communicate()
WaitError(msg) ==
    /\ pc = "wait"
    /\ store' = UpdateJob(store, J, ExecFailure("error", msg, clock))
    /\ clock' = clock + 1
    /\ failedStep' = "wait"
    /\ pc' = "finally"
    /\ ljob' = store'[J]
    /\ UNCHANGED <<lstatus, proc, returncode, stdout, stderrText, sigterms,
                   autoPrCalls, prResult, traceEnds, ran,
                   cancelVars, submitRet>>
    /\ UNCHANGED <<repoVars, backendVars>>

\* lines 210-211, mutated: the extracted session id is not written
SidStoreSkipped(st, id, sid) == st
\* _execute_claude lines 210-211: `if sid: update_job(job.id, session_id=sid)`
SidStore(st, id, sid) ==
    IF sid # Absent THEN UpdateJob(st, id, [session_id |-> sid]) ELSE st

\* _execute_claude lines 206-211: the extracted session id is written first
ExtractSid ==
    /\ pc = "sid"
    /\ store' = SidStore(store, J, ExtractSessionId(stdout))
    /\ pc' = "final"
    /\ UNCHANGED <<clock, lstatus, proc, returncode, stdout, stderrText,
                   sigterms, autoPrCalls, prResult, traceEnds, failedStep, ran,
                   cancelVars, callVars>>
    /\ UNCHANGED <<repoVars, backendVars>>

\* lines 213-221, mutated: the status does not depend on the exit code
FinalFieldsAlwaysSucceeded(code, out, err, now) ==
    [status |-> "succeeded", exit_code |-> Some(code), output |-> Some(out),
     error |-> IF err # "" THEN Some(err) ELSE Absent,
     ended_at |-> Some(now)]
\* _execute_claude lines 213-221: the fields of the terminal write
FinalFields(code, out, err, now) ==
    [status |-> IF code = 0 THEN "succeeded" ELSE "failed",
     exit_code |-> Some(code), output |-> Some(out),
     error |-> IF err # "" THEN Some(err) ELSE Absent,
     ended_at |-> Some(now)]

\* _execute_claude lines 213-221: the terminal write after a normal exit
Finalize ==
    /\ pc = "final"
    /\ LET code == CHOOSE c \in returncode : TRUE
           kw == FinalFields(code, stdout, stderrText, clock)
       IN /\ lstatus' = kw.status
          /\ store' = UpdateJob(store, J, kw)
    /\ clock' = clock + 1
    /\ pc' = "maybe_pr"
    /\ ljob' = store'[J]
    /\ UNCHANGED <<proc, returncode, stdout, stderrText, sigterms,
                   autoPrCalls, prResult, traceEnds, failedStep, ran,
                   cancelVars, submitRet>>
    /\ UNCHANGED <<repoVars, backendVars>>

\* _maybe_auto_pr lines 129-134: the guard, then the call of create_auto_pr
MaybeAutoPr ==
    /\ pc = "maybe_pr"
    /\ IF AutoPrWanted(lstatus, store[J].profile, store[J].repo_url)
       THEN /\ autoPrCalls' = autoPrCalls + 1
            /\ pc' = "pr_wait"
       ELSE /\ autoPrCalls' = autoPrCalls
            /\ pc' = "finally"
    /\ UNCHANGED <<store, clock, lstatus, proc, returncode, stdout, stderrText,
                   sigterms, prResult, traceEnds, failedStep, ran,
                   cancelVars, callVars>>
    /\ UNCHANGED <<repoVars, backendVars>>

\* lines 135-138, mutated: a raising create_auto_pr marks the job failed
AutoPrStoreDemotes(st, id, result) ==
    IF result = "url" THEN UpdateJob(st, id, [pr_url |-> Some("https://pr/1")])
    ELSE IF result = "raised" THEN UpdateJob(st, id, [status |-> "failed"])
    ELSE st
\* _maybe_auto_pr lines 135-138: only a returned URL is written; None and an
\* exception (caught, printed to stderr) write nothing
AutoPrStore(st, id, result) ==
    IF result = "url" THEN UpdateJob(st, id, [pr_url |-> Some("https://pr/1")])
    ELSE st

\* _maybe_auto_pr lines 134-139: create_auto_pr returns a URL, returns None,
\* or raises
AutoPrDone(result) ==
    /\ pc = "pr_wait"
    /\ prResult' = result
    /\ store' = AutoPrStore(store, J, result)
    /\ pc' = "finally"
    /\ ljob' = IF result = "url" THEN store'[J] ELSE ljob
    /\ UNCHANGED <<clock, lstatus, proc, returncode, stdout, stderrText,
                   sigterms, autoPrCalls, traceEnds, failedStep, ran,
                   cancelVars, submitRet>>
    /\ UNCHANGED <<repoVars, backendVars>>

\* run_job lines 178-181: the finally clause around _execute_claude
Finally ==
    /\ pc = "finally"
    /\ traceEnds' = traceEnds + 1
    /\ pc' = "returned"
    /\ submitRet' = RunJobReturn(ljob)
    /\ UNCHANGED <<store, clock, lstatus, proc, returncode, stdout, stderrText,
                   sigterms, autoPrCalls, prResult, failedStep, ran,
                   cancelVars, ljob>>
    /\ UNCHANGED <<repoVars, backendVars>>

\* ------------------------------------------------------------------------
\* jobs.py: cancel_job
\* ------------------------------------------------------------------------
\* lines 254-258, mutated: the signal is sent whether or not a pid is recorded
SignalsAlways(job) == TRUE
\* cancel_job line 254: `if job.pid is not None` guards os.kill
Signals(job) == job.pid # Absent

CancelJob(id) ==
    /\ cancelCount < MaxCancels
    /\ cancelCount' = cancelCount + 1
    /\ lastCancelId' = id
    /\ LET job == store[id] IN
       IF job = NoJob
       THEN /\ lastCancelRet' = [lastCancelRet EXCEPT ![id] = NoJob]
            /\ UNCHANGED <<store, clock, sigterms, noopCancels>>
       ELSE IF ~CancelActs(job)
       THEN /\ lastCancelRet' = [lastCancelRet EXCEPT ![id] = job]
            /\ noopCancels' = noopCancels + 1
            /\ UNCHANGED <<store, clock, sigterms>>
       ELSE \* os.kill(pid, 15); ProcessLookupError is swallowed
            /\ sigterms' = IF Signals(job) /\ proc = "running"
                           THEN sigterms + 1 ELSE sigterms
            /\ store' = UpdateJob(store, id,
                   [status |-> "cancelled", ended_at |-> Some(clock)])
            /\ clock' = clock + 1
            /\ lastCancelRet' = [lastCancelRet EXCEPT ![id] = store'[id]]
            /\ noopCancels' = noopCancels
    /\ UNCHANGED <<pc, lstatus, proc, returncode, stdout, stderrText,
                   autoPrCalls, prResult, traceEnds, failedStep, ran,
                   callVars>>
    /\ UNCHANGED <<repoVars, backendVars>>

\* the stdouts the subprocess of the job life cycle may print
StdoutSamples == {<<>>, <<TextLine, ObjLine(Some("s1"), Absent)>>}

RunnerStep ==
    \/ RunStart
    \/ \E ok \in BOOLEAN, m \in ErrMsgs : PrepareRepo(ok, m)
    \/ \E ok \in BOOLEAN, m \in ErrMsgs : Materialize(ok, m)
    \/ \E ok \in BOOLEAN : BuildCmd(ok)
    \/ \E r \in {"ok", "notfound", "error"}, m \in ErrMsgs : Spawn(r, m)
    \/ PersistPid
    \/ WaitDone
    \/ WaitTimeout
    \/ \E m \in ErrMsgs : WaitError(m)
    \/ ExtractSid
    \/ Finalize
    \/ MaybeAutoPr
    \/ \E r \in {"url", "nourl", "raised"} : AutoPrDone(r)
    \/ Finally

Next ==
    \/ \E p \in ProfileNames, u \in {"", "https://github.com/o/r"},
          w \in BOOLEAN, s \in {Absent, Some("s0")} : Submit(p, u, w, s)
    \/ RunnerStep
    \/ \E c \in {0, 1, -SIGTERM}, out \in StdoutSamples,
          e \in {"", "stderr"} : ProcExit(c, out, e)
    \/ \E id \in JobIds : CancelJob(id)

Spec == Init /\ [][Next]_vars

\* run_job is a coroutine the event loop keeps running, and every wait in it
\* is bounded (git and the subprocess wait have timeouts)
FairSpec == Spec /\ WF_vars(RunnerStep)

\* ------------------------------------------------------------------------
\* Properties of the job life cycle
\* ------------------------------------------------------------------------
Created == store[J] # NoJob
RunJobOver == pc \in {"returned", "raised"}

\* C1: once the persisted status of a job is terminal, no step of run_job
\* and no cancel_job changes it.
C1_TerminalStatusStable ==
    [][\A id \in JobIds :
          (store[id] # NoJob /\ Terminal(store[id].status))
             => store'[id].status = store[id].status]_vars

\* C2: every change of the persisted status is one of queued->running,
\* running->succeeded, running->failed, queued->cancelled,
\* running->cancelled; expired is never written.
AllowedTransitions ==
    {<<"queued", "running">>, <<"running", "succeeded">>,
     <<"running", "failed">>, <<"queued", "cancelled">>,
     <<"running", "cancelled">>}
C2_OnlyListedTransitions ==
    [][\A id \in JobIds :
          (store[id] # NoJob /\ store'[id].status # store[id].status)
             => <<store[id].status, store'[id].status>> \in AllowedTransitions]_vars

\* C3: every job run_job was started on eventually has a terminal persisted
\* status, and whenever run_job has returned the persisted status is terminal.
C3_EventuallyTerminal ==
    /\ (pc = "start") ~> (Created /\ Terminal(store[J].status))
    /\ [](pc = "returned" => Terminal(store[J].status))

\* C4: no exception escapes run_job: after a failure in any of its steps
\* run_job has returned a job whose persisted status is failed with a
\* non-empty error.
C4_NoExceptionEscapes ==
    /\ pc # "raised"
    /\ (pc = "returned" /\ failedStep # "none")
          => /\ store[J].status = "failed"
             /\ store[J].error # Absent
             /\ store[J].error # Some("")

C10_AutoPrOnce ==
    /\ autoPrCalls <= 1
    /\ autoPrCalls = 1 =>
          /\ proc = "exited"
          /\ returncode = Some(0)
          /\ ProfileAutoPr(store[J].profile)
          /\ store[J].repo_url # ""
    /\ (Created /\ store[J].pr_url # Absent) => prResult = "url"
    /\ prResult # "none" => autoPrCalls = 1

\* run_job has returned after one create_auto_pr call that gave a URL
C10_Witness ==
    /\ pc = "returned"
    /\ autoPrCalls = 1
    /\ prResult = "url"
    /\ store[J].pr_url # Absent

\* C11: when create_auto_pr raises or returns no URL for a succeeded job, the
\* step writes nothing: the persisted record (status succeeded, exit_code,
\* output, ended_at) is what it was, and run_job goes on to return.
C11_AutoPrFailureHarmless ==
    /\ [][(pc = "pr_wait" /\ pc' = "finally"
             /\ prResult' \in {"nourl", "raised"})
            => /\ store[J].status = "succeeded"
               /\ store'[J] = store[J]]_vars
    /\ []((pc \in {"finally", "returned"} /\ prResult \in {"nourl", "raised"})
            => /\ store[J].status = "succeeded"
               /\ store[J].exit_code = Some(0)
               /\ store[J].pr_url = Absent)

\* run_job has returned a succeeded job after create_auto_pr raised
C11_Witness ==
    /\ pc = "returned"
    /\ prResult = "raised"
    /\ store[J].status = "succeeded"
    /\ store[J].ended_at # Absent

\* C12: after wait_for timed out on the subprocess the job is failed with
\* exit_code -1, ended_at set and an error naming the profile's timeout; a
\* timeout is only ever recorded from the subprocess wait, never for a job
\* that failed in the clone or the materialization step.
C12_TimeoutFails ==
    /\ failedStep = "timeout" =>
          /\ pc \in {"finally", "returned"}
          /\ "spawn" \in ran
          /\ store[J].status = "failed"
          /\ store[J].exit_code = Some(-1)
          /\ store[J].ended_at # Absent
          /\ store[J].error = IF store[J].profile = "code"
                              THEN Some("Timeout after 3600s")
                              ELSE Some("Timeout after 600s")
    /\ (Created /\ store[J].exit_code = Some(-1)) => failedStep = "timeout"
    /\ failedStep \in {"clone", "materialize"} =>
          /\ store[J].exit_code = Absent
          /\ store[J].error \notin {Some("Timeout after 3600s"),
                                    Some("Timeout after 600s")}

\* run_job has returned after the wait on the subprocess timed out
C12_Witness ==
    /\ pc = "returned"
    /\ failedStep = "timeout"
    /\ store[J].profile = "review"
    /\ store[J].error = Some("Timeout after 600s")

\* C13: no job has the terminal status of a timeout written while its
\* subprocess is still running.
C13_KilledBeforeFinal ==
    ~(/\ failedStep = "timeout"
      /\ Terminal(store[J].status)
      /\ proc = "running")

\* C14: when the profile of the job cannot be loaded, run_job writes failed
\* with an error naming the profile and returns; nothing else happened: no
\* ensure_clone, no materialization, no command built, no subprocess, no
\* started_at.
C14_ProfileMissingNoEffect ==
    /\ (Created /\ store[J].profile \in {"nope", "ghost"} /\ pc # "start")
          => failedStep = "profile"
    /\ failedStep = "profile" =>
          /\ pc = "returned"
          /\ store[J].status = "failed"
          /\ store[J].error = Some("Profile not found: " \o store[J].profile)
          /\ store[J].ended_at # Absent
          /\ store[J].started_at = Absent
          /\ store[J].pid = Absent
          /\ ran = {}
          /\ proc = "none"
          /\ autoPrCalls = 0

\* run_job has returned for a job whose profile "ghost" does not exist
C14_Witness ==
    /\ pc = "returned"
    /\ failedStep = "profile"
    /\ store[J].profile = "ghost"
    /\ store[J].repo_url # ""

\* C15: when _prepare_job_repo or materialize_profile raised, the job is
\* failed (with an error "Clone failed: <cause>" in the first case), run_job
\* has returned, and no subprocess was or will be spawned.
C15_CloneFailureStops ==
    failedStep \in {"clone", "materialize"} =>
       /\ pc = "returned"
       /\ store[J].status = "failed"
       /\ store[J].ended_at # Absent
       /\ "spawn" \notin ran
       /\ proc = "none"
       /\ failedStep = "clone" =>
             \E m \in ErrMsgs : store[J].error = Some("Clone failed: " \o m)
       /\ failedStep = "materialize" =>
             \E m \in ErrMsgs :
                store[J].error = Some("Profile materialization failed: " \o m)

\* run_job has returned after ensure_clone failed
C15_Witness ==
    /\ pc = "returned"
    /\ failedStep = "clone"
    /\ store[J].status = "failed"
    /\ store[J].error = Some("Clone failed: boom")

\* C16: after wait_for returned the subprocess' result, one update writes
\* status succeeded when the exit code is 0 and failed otherwise, together
\* with exit_code, output, error and ended_at; that status is the final one.
C16_StatusFromExitCode ==
    /\ [][(pc = "final" /\ pc' = "maybe_pr") =>
            \E code \in returncode :
               /\ store'[J].status = IF code = 0 THEN "succeeded" ELSE "failed"
               /\ store'[J].exit_code = Some(code)
               /\ store'[J].output = Some(stdout)
               /\ store'[J].error = IF stderrText = "" THEN Absent
                                    ELSE Some(stderrText)
               /\ store'[J].ended_at = Some(clock)]_vars
    /\ []((pc \in {"maybe_pr", "pr_wait", "finally", "returned"}
             /\ failedStep = "none")
            => /\ store[J].exit_code = returncode
               /\ store[J].status \in {"succeeded", "failed"}
               /\ store[J].status = "succeeded" <=> returncode = Some(0))

\* run_job has returned after the subprocess exited with code 1
C16_Witness ==
    /\ pc = "returned"
    /\ failedStep = "none"
    /\ returncode = Some(1)
    /\ store[J].status = "failed"
    /\ store[J].error = Some("stderr")

\* C25: submit_job without wait returns the created job, queued and in mode
\* fire_and_forget, before run_job has taken a step for it, and run_job then
\* takes its steps in the background; submit_job with wait returns only
\* once run_job has returned, and returns a job in mode sync with a
\* terminal status.
C25_SubmitReturns ==
    /\ [][(pc = "idle" /\ pc' = "start"
             /\ store'[J].mode = "fire_and_forget") =>
             /\ submitRet' = store'[J]
             /\ submitRet'.status = "queued"
             /\ submitRet'.mode = "fire_and_forget"
             /\ ran' = {}
             /\ store'[J].started_at = Absent]_vars
    /\ []((Created /\ store[J].mode = "sync" /\ submitRet # NoJob) =>
             /\ pc = "returned"
             /\ submitRet.id = J
             /\ submitRet.mode = "sync"
             /\ Terminal(submitRet.status))
    /\ ((Created /\ store[J].mode = "fire_and_forget" /\ pc = "start")
            ~> (pc # "start"))

\* a sync submit_job has returned the job of a run that spawned the
\* subprocess and succeeded
C25_Witness ==
    /\ pc = "returned"
    /\ "spawn" \in ran
    /\ submitRet # NoJob
    /\ submitRet.mode = "sync"
    /\ submitRet.status = "succeeded"

\* C26: in every state the record of a job has ended_at set if and only if
\* its status is terminal.
C26_EndedAtIffTerminal ==
    \A id \in JobIds :
        store[id] # NoJob =>
            (store[id].ended_at # Absent <=> Terminal(store[id].status))

\* C27: in every state a queued job has no started_at, and a job that is
\* running, succeeded or failed has one.
C27_StartedAtIffRan ==
    \A id \in JobIds :
        store[id] # NoJob =>
            /\ store[id].status = "queued" => store[id].started_at = Absent
            /\ store[id].status \in {"running", "succeeded", "failed"} =>
                  store[id].started_at # Absent

\* C28: in every state a job whose error field is present has status
\* failed.
C28_ErrorOnlyIfFailed ==
    \A id \in JobIds :
        (store[id] # NoJob /\ store[id].error # Absent) =>
            store[id].status = "failed"

\* C31: end_job_trace is never called twice, whenever run_job has returned
\* it was called exactly once, and the step that calls it leaves the
\* persisted record as it is.
C31_TelemetryOnce ==
    /\ [](traceEnds <= 1)
    /\ [](pc = "returned" => traceEnds = 1)
    /\ [][traceEnds' # traceEnds => store' = store]_vars

\* C32: a cancel_job that acts on a job with no recorded pid sends no
\* signal, changes only status and ended_at of the record and leaves run_job
\* where it is; and whatever the stored status, run_job's next step up to
\* and including the spawn can be taken.
C32_CancelWithoutPid ==
    /\ [][(cancelCount' = cancelCount + 1 /\ lastCancelId' = J /\ Created
             /\ store[J].pid = Absent /\ ~Terminal(store[J].status)) =>
             /\ sigterms' = sigterms
             /\ store'[J] = [store[J] EXCEPT !.status = "cancelled",
                                             !.ended_at = store'[J].ended_at]
             /\ store'[J].ended_at # Absent
             /\ pc' = pc /\ proc' = proc /\ ran' = ran]_vars
    /\ []((Created
             /\ pc \in {"start", "clone", "materialize", "build", "spawn"}) =>
             ENABLED RunnerStep)

\* the job was cancelled before any pid was recorded, and run_job went on
\* to spawn the subprocess, which was never signalled
C32_Witness ==
    /\ cancelCount >= 1
    /\ lastCancelRet[J] # NoJob
    /\ lastCancelRet[J].status = "cancelled"
    /\ lastCancelRet[J].pid = Absent
    /\ "spawn" \in ran
    /\ proc = "running"
    /\ sigterms = 0

\* C33: created_at never changes, and started_at and ended_at never change
\* once they are set.
C33_TimestampsWrittenOnce ==
    [][\A id \in JobIds :
          store[id] # NoJob =>
             /\ store'[id].created_at = store[id].created_at
             /\ \A f \in {"started_at", "ended_at"} :
                   store[id][f] # Absent => store'[id][f] = store[id][f]]_vars

\* C37: once cancel_job has returned the job with status cancelled, no
\* pull request is opened for it: create_auto_pr is not called any more.
C37_NoPrAfterCancel ==
    [][(/\ lastCancelRet[J] # NoJob
        /\ lastCancelRet[J].status = "cancelled") =>
           autoPrCalls' = autoPrCalls]_vars

\* ------------------------------------------------------------------------
\* Session id extraction over every stdout of at most MaxLines lines
\* ------------------------------------------------------------------------
\* the lines a stdout is made of: the empty value "" stands for every falsy
\* JSON value (null, "", 0, false) under the key
SidLines ==
    {TextLine, BadLine} \cup
    {ObjLine(a, b) : a \in {Absent, Some(""), Some("s1")},
                     b \in {Absent, Some("s2")}}
Stdouts == UNION {[1..n -> SidLines] : n \in 0..MaxLines}

\* one job run without failure and without cancel, whose subprocess prints
\* any of the Stdouts and exits with code 0
SidNext ==
    \/ \E s \in {Absent, Some("s0")} :
          Submit("code", "https://github.com/o/r", TRUE, s)
    \/ RunStart
    \/ PrepareRepo(TRUE, "")
    \/ Materialize(TRUE, "")
    \/ BuildCmd(TRUE)
    \/ Spawn("ok", "")
    \/ PersistPid
    \/ \E out \in Stdouts : ProcExit(0, out, "")
    \/ WaitDone
    \/ ExtractSid
    \/ Finalize
    \/ MaybeAutoPr
    \/ AutoPrDone("url")
    \/ Finally

SidSpec == Init /\ [][SidNext]_vars

\* the lines that parse as a JSON object carrying one of the two keys
KeyLines(out) ==
    {i \in 1..Len(out) :
        out[i].kind = "obj"
        /\ (out[i].session_id # Absent \/ out[i].sessionId # Absent)}
\* the lines that parse as a JSON object with a non-empty value under one of
\* the two keys
ValueLines(out) ==
    {i \in 1..Len(out) :
        out[i].kind = "obj"
        /\ (Truthy(out[i].session_id) \/ Truthy(out[i].sessionId))}
Last(S) == CHOOSE i \in S : \A k \in S : k <= i

PrintedSid ==
    LET l == stdout[Last(ValueLines(stdout))]
    IN IF Truthy(l.session_id) THEN l.session_id ELSE l.sessionId

\* C29: when the stdout of an exited subprocess carries a session id, the
\* record already has that session id in the state the terminal status of
\* the exit is written from, and has it in every state from that write on,
\* whatever the exit code.
C29_SidBeforeTerminal ==
    /\ [][(pc = "final" /\ pc' = "maybe_pr" /\ ValueLines(stdout) # {}) =>
              /\ store[J].session_id = PrintedSid
              /\ store'[J].session_id = PrintedSid]_vars
    /\ []((lstatus # "none" /\ ValueLines(stdout) # {}) =>
              store[J].session_id = PrintedSid)

\* a subprocess that printed a session id exited with code 1: the record
\* is failed and has the session id
C29_Witness ==
    /\ pc = "returned"
    /\ lstatus = "failed"
    /\ returncode = Some(1)
    /\ ValueLines(stdout) # {}
    /\ store[J].status = "failed"
    /\ store[J].session_id = Some("s1")

\* C30: while run_job is in the bounded wait the record has the pid of the
\* subprocess; a cancel_job that acts on the job during the wait, with the
\* subprocess still alive, signals it; and a job that is running
\* eventually has a pid recorded or a terminal status.
C30_PidBeforeWait ==
    /\ [](pc = "wait" => store[J].pid = Some(ProcPid))
    /\ [][(cancelCount' = cancelCount + 1 /\ lastCancelId' = J
             /\ pc = "wait" /\ proc = "running"
             /\ ~Terminal(store[J].status)) =>
             sigterms' = sigterms + 1]_vars
    /\ ((Created /\ store[J].status = "running")
            ~> (Created /\ (store[J].pid # Absent
                             \/ Terminal(store[J].status))))

\* ------------------------------------------------------------------------
\* jobs.py: the two backends of the job store
\* ------------------------------------------------------------------------
\* A dict (what to_dict gives, the JSON of the job file, a Redis hash) is a
\* function from the keys it has to their values.
EmptyDict == [k \in {} |-> ""]
NoFile == [absent |-> TRUE]       \* the job file does not exist
Raised == [raised |-> TRUE]       \* the call raised instead of returning

JobFields == {"id", "repo_url", "base_ref", "task", "profile", "status",
              "mode", "exit_code", "session_id", "pr_url", "output", "error",
              "created_at", "started_at", "ended_at", "ttl_seconds", "pid"}
\* the fields declared Optional[...] = None
OptFields == {"exit_code", "session_id", "pr_url", "output", "error",
              "started_at", "ended_at", "pid"}
\* the fields get_job converts back with int()
IntFields == {"exit_code", "ttl_seconds", "pid"}
IntValues == {-15, -1, 0, 1, 4242, 86400}

\* the defaults of Job.from_dict for a key the dict does not have
FieldDefault(f) ==
    IF f = "base_ref" THEN "main"
    ELSE IF f = "profile" THEN "code"
    ELSE IF f = "status" THEN "queued"
    ELSE IF f = "mode" THEN "fire_and_forget"
    ELSE IF f = "ttl_seconds" THEN 86400
    ELSE IF f = "created_at" THEN 0
    ELSE ""

\* Job.to_dict: asdict without the keys whose value is None
ToDict(job) ==
    [k \in {f \in DOMAIN job : f \notin OptFields \/ job[f] # Absent} |->
        IF k \in OptFields THEN CHOOSE v \in job[k] : TRUE ELSE job[k]]

\* lines 50-59, mutated: a missing optional key gets a default value
FromDictDefaults(d) ==
    [f \in JobFields |->
        IF f \in OptFields
        THEN (IF f \in DOMAIN d THEN Some(d[f]) ELSE Some(FieldDefault(f)))
        ELSE (IF f \in DOMAIN d THEN d[f] ELSE FieldDefault(f))]

\* Job.from_dict: data.get(key, default) for every field
FromDict(d) ==
    [f \in JobFields |->
        IF f \in OptFields
        THEN (IF f \in DOMAIN d THEN Some(d[f]) ELSE Absent)
        ELSE (IF f \in DOMAIN d THEN d[f] ELSE FieldDefault(f))]

\* _save_job line 270: every value of the dict as a string
RedisEncode(d) ==
    [k \in DOMAIN d |-> IF k \in IntFields THEN ToString(d[k]) ELSE d[k]]

\* get_job lines 162-171: int() on the numeric keys, "None" back to None
RedisDecode(data) ==
    [k \in {f \in DOMAIN data : ~(f \in IntFields /\ data[f] = "None")} |->
        IF k \in IntFields
        THEN CHOOSE n \in IntValues : ToString(n) = data[k]
        ELSE data[k]]

\* r.hset(key, mapping=...): the given fields are set, the others stay
HSet(old, new) ==
    [k \in DOMAIN old \cup DOMAIN new |->
        IF k \in DOMAIN new THEN new[k] ELSE old[k]]

\* _get_redis lines 75-94: the first call decides for the process lifetime;
\* probe is "ok", "unset" (no REDIS_URL) or "down" (ping failed)
GetRedis(state, probe) ==
    IF state # "unchecked" THEN state
    ELSE IF probe = "ok" THEN "client" ELSE "none"

\* what a Redis command of this call does when the server cannot be
\* reached: "none" (all commands work), or the command that raises
RedisFaults == {"none", "read", "hset", "expire"}

\* get_job lines 155-180
GetJob(hash, file, r, id, fault) ==
    IF r = "client" /\ fault = "read" THEN Raised
    ELSE IF r = "client" /\ DOMAIN hash[id] # {}
    THEN FromDict(RedisDecode(hash[id]))
    ELSE IF file[id] # NoFile THEN FromDict(file[id])
    ELSE NoJob

\* _save_job lines 263-278: hset, expire, then the file; an exception of a
\* Redis command leaves the function before the file is written
SaveJob(hash, file, r, job, fault) ==
    LET d == ToDict(job)
        written == [hash EXCEPT ![job.id] = HSet(@, RedisEncode(d))]
    IN IF r = "client" /\ fault = "hset"
       THEN [hash |-> hash, file |-> file, ok |-> FALSE]
       ELSE IF r = "client" /\ fault = "expire"
       THEN [hash |-> written, file |-> file, ok |-> FALSE]
       ELSE [hash |-> IF r = "client" THEN written ELSE hash,
             file |-> [file EXCEPT ![job.id] = d],
             ok |-> TRUE]

\* hasattr(job, key) line 190: true of the dataclass fields and of the
\* names the class defines besides them
JobMethods == {"to_dict", "from_dict"}
HasAttr(key) == key \in JobFields \cup JobMethods

\* update_job lines 183-194 over the two backends; a keyword to_dict is
\* set on the instance and job.to_dict() of _save_job (line 266) then calls
\* the given value, which raises TypeError before anything is written
UpdateOp(hash, file, r, id, kw, fault) ==
    LET job == GetJob(hash, file, r, id, fault)
    IN IF job = Raised \/ job = NoJob
       THEN [hash |-> hash, file |-> file, ret |-> job]
       ELSE IF \E k \in DOMAIN kw : HasAttr(k) /\ k = "to_dict"
       THEN [hash |-> hash, file |-> file, ret |-> Raised]
       ELSE LET new == ApplyKwargs(job, kw)
                s == SaveJob(hash, file, r, new, fault)
            IN [hash |-> s.hash, file |-> s.file,
                ret |-> IF s.ok THEN new ELSE Raised]

\* cancel_job lines 244-260 over the two backends
CancelOp(hash, file, r, id, now, fault) ==
    LET job == GetJob(hash, file, r, id, fault)
    IN IF job = Raised \/ job = NoJob
       THEN [hash |-> hash, file |-> file, ret |-> job]
       ELSE IF ~CancelActs(job)
       THEN [hash |-> hash, file |-> file, ret |-> job]
       ELSE UpdateOp(hash, file, r, id,
                     [status |-> "cancelled", ended_at |-> Some(now)], fault)

\* _now_iso() at the time of the call
StoreNow == storeCalls + 1

\* the end of a store call: its effect on the backends and what it returned
StoreCallEnds(name, id, kw, fault, r, res) ==
    /\ storeCalls' = storeCalls + 1
    /\ lastCall' = [op |-> name, id |-> id, kw |-> kw, fault |-> fault]
    /\ rstate' = r
    /\ rhash' = res.hash
    /\ jfile' = res.file
    /\ lastRet' = res.ret
    /\ UNCHANGED <<jobVars, repoVars, writerVars>>

\* create_job lines 129-152, uuid4 giving the fresh id
CreateJobAs(id, probe, fault) ==
    /\ storeCalls < MaxStoreCalls
    /\ jfile[id] = NoFile
    /\ DOMAIN rhash[id] = {}
    /\ LET r == GetRedis(rstate, probe)
           job == NewJob(id, "code", "", "fire_and_forget", Absent, StoreNow)
           s == SaveJob(rhash, jfile, r, job, fault)
       IN StoreCallEnds("create", id, EmptyDict, fault, r,
             [hash |-> s.hash, file |-> s.file,
              ret |-> IF s.ok THEN job ELSE Raised])

CreateJobCall(probe, fault) == CreateJobAs(J, probe, fault)

\* update_job(id, **kw)
UpdateJobCall(id, kw, probe, fault) ==
    /\ storeCalls < MaxStoreCalls
    /\ LET r == GetRedis(rstate, probe)
       IN StoreCallEnds("update", id, kw, fault, r,
             UpdateOp(rhash, jfile, r, id, kw, fault))

\* cancel_job(id)
CancelJobCall(id, probe, fault) ==
    /\ storeCalls < MaxStoreCalls
    /\ LET r == GetRedis(rstate, probe)
       IN StoreCallEnds("cancel", id, EmptyDict, fault, r,
             CancelOp(rhash, jfile, r, id, StoreNow, fault))

\* get_job(id)
GetJobCall(id, probe, fault) ==
    /\ storeCalls < MaxStoreCalls
    /\ LET r == GetRedis(rstate, probe)
       IN StoreCallEnds("get", id, EmptyDict, fault, r,
             [hash |-> rhash, file |-> jfile,
              ret |-> GetJob(rhash, jfile, r, id, fault)])

\* _save_job line 273: the key's TTL runs out and Redis drops the hash
RedisKeyExpire(id) ==
    /\ DOMAIN rhash[id] # {}
    /\ rhash' = [rhash EXCEPT ![id] = EmptyDict]
    /\ UNCHANGED <<rstate, jfile, storeCalls, lastCall, lastRet>>
    /\ UNCHANGED <<jobVars, repoVars, writerVars>>

\* the keyword arguments update_job is called with: Job fields, a name
\* that is no attribute of Job, and the name of a method of Job
KwSamples ==
    {[error |-> Some("boom")], [error |-> Absent],
     [status |-> "failed", exit_code |-> Some(1)],
     [pid |-> Some(4242)],
     [status |-> "running", nonexistent_field |-> "value"],
     [to_dict |-> "value"]}

StoreNext ==
    \/ \E p \in {"ok", "unset", "down"}, f \in RedisFaults :
          \/ CreateJobCall(p, f)
          \/ \E id \in JobIds, kw \in KwSamples : UpdateJobCall(id, kw, p, f)
          \/ \E id \in JobIds : CancelJobCall(id, p, f)
          \/ \E id \in JobIds : GetJobCall(id, p, f)
    \/ \E id \in JobIds : RedisKeyExpire(id)

StoreSpec == Init /\ [][StoreNext]_vars

\* ------------------------------------------------------------------------
\* Properties of the job store
\* ------------------------------------------------------------------------
IsJob(ret) == ret # NoJob /\ ret # Raised
StoreCallOf(names) ==
    storeCalls' = storeCalls + 1 /\ lastCall'.op \in names
\* no backend has a record for the id
NoRecord(id) == jfile[id] = NoFile /\ DOMAIN rhash[id] = {}

\* C18: after every create_job, update_job and cancel_job that returns a
\* job, the job file holds exactly the returned job, and so does the Redis
\* hash when Redis is in use and has the key.
C18_BackendsAgree ==
    [][\A id \in JobIds :
          (StoreCallOf({"create", "update", "cancel"})
             /\ lastCall'.id = id /\ IsJob(lastRet')) =>
             /\ jfile'[id] # NoFile
             /\ FromDict(jfile'[id]) = lastRet'
             /\ (rstate' = "client" /\ DOMAIN rhash'[id] # {}) =>
                   FromDict(RedisDecode(rhash'[id])) = lastRet']_vars

\* C19: every create_job, and every update_job on an existing record,
\* returns the job and has written it to the job file, whatever Redis does.
C19_FileAlwaysWritten ==
    [][\A id \in JobIds :
          (StoreCallOf({"create", "update"}) /\ lastCall'.id = id
             /\ (lastCall'.op = "create" \/ ~NoRecord(id))) =>
             /\ IsJob(lastRet')
             /\ jfile'[id] = ToDict(lastRet')]_vars

\* C20: update_job on an id no backend has a record for returns absent and
\* writes nothing, and get_job on such an id returns absent.
C20_NoImplicitCreation ==
    [][\A id \in JobIds :
          (StoreCallOf({"update", "get"}) /\ lastCall'.id = id
             /\ NoRecord(id)) =>
             /\ lastRet' = NoJob
             /\ jfile' = jfile
             /\ rhash' = rhash]_vars

\* the record the claim expects of update_job(id, **kw) on the record old:
\* the named Job fields replaced, every other field as it was
Updated(old, kw) ==
    [f \in JobFields |-> IF f \in DOMAIN kw THEN kw[f] ELSE old[f]]

\* C21: update_job on an existing record, with Redis answering, returns the
\* old record with exactly the named Job fields replaced (names that are no
\* Job field change nothing), and a get_job after it returns the same.
C21_UpdateFrame ==
    [][\A id \in JobIds :
          (StoreCallOf({"update"}) /\ lastCall'.id = id /\ ~NoRecord(id)
             /\ lastCall'.fault = "none") =>
             LET old == GetJob(rhash, jfile, rstate', id, "none")
                 exp == Updated(old, lastCall'.kw)
             IN /\ lastRet' = exp
                /\ GetJob(rhash', jfile', rstate', id, "none") = exp]_vars

\* ------------------------------------------------------------------------
\* jobs.py: update_job and cancel_job of two processes on one job
\* ------------------------------------------------------------------------
\* RaceSpec splits update_job at its two accesses to the backends, the
\* get_job of line 185 and the _save_job of line 193; nothing serializes the
\* calls of two processes between them.  The runner process issues the
\* update_job calls of run_job one after the other, the client process
\* issues cancel_job.

\* the keyword arguments run_job passes (runner.py lines 153, 122, 211);
\* started_at is given its value, _now_iso(), when the call is made
UpdateKw == {[status |-> "running", started_at |-> Absent],
             [pid |-> Some(4242)],
             [session_id |-> Some("s1")]}
Stamped(kw, now) ==
    [k \in DOMAIN kw |-> IF k = "started_at" THEN Some(now) ELSE kw[k]]

\* update_job lines 183-187: the call and its get_job
BeginUpdate(w, kw, probe) ==
    /\ wpc[w] = "idle"
    /\ storeCalls < MaxStoreCalls
    /\ storeCalls' = storeCalls + 1
    /\ rstate' = GetRedis(rstate, probe)
    /\ LET job == GetJob(rhash, jfile, rstate', J, "none")
       IN IF job = NoJob
          THEN /\ lastCall' = [op |-> "update", id |-> J,
                               kw |-> Stamped(kw, StoreNow),
                               fault |-> "none"]
               /\ lastRet' = NoJob
               /\ UNCHANGED writerVars
          ELSE /\ wpc' = [wpc EXCEPT ![w] = "save"]
               /\ wjob' = [wjob EXCEPT ![w] = job]
               /\ wkw' = [wkw EXCEPT ![w] = Stamped(kw, StoreNow)]
               /\ UNCHANGED <<lastCall, lastRet>>
    /\ UNCHANGED <<rhash, jfile>>
    /\ UNCHANGED <<jobVars, repoVars>>

\* cancel_job lines 244-260 up to its call of update_job: get_job, the
\* test of the status, os.kill
BeginCancel(w, probe) ==
    /\ wpc[w] = "idle"
    /\ storeCalls < MaxStoreCalls
    /\ storeCalls' = storeCalls + 1
    /\ rstate' = GetRedis(rstate, probe)
    /\ LET job == GetJob(rhash, jfile, rstate', J, "none")
       IN IF job = NoJob \/ ~CancelActs(job)
          THEN /\ lastCall' = [op |-> "cancel", id |-> J, kw |-> EmptyDict,
                               fault |-> "none"]
               /\ lastRet' = job
               /\ UNCHANGED writerVars
          ELSE /\ wpc' = [wpc EXCEPT ![w] = "read"]
               /\ wkw' = [wkw EXCEPT ![w] =
                            [status |-> "cancelled",
                             ended_at |-> Some(StoreNow)]]
               /\ UNCHANGED <<wjob, lastCall, lastRet>>
    /\ UNCHANGED <<rhash, jfile>>
    /\ UNCHANGED <<jobVars, repoVars>>

\* update_job line 185 inside cancel_job: its own get_job
ReadForUpdate(w) ==
    /\ wpc[w] = "read"
    /\ LET job == GetJob(rhash, jfile, rstate, J, "none")
       IN IF job = NoJob
          THEN /\ wpc' = [wpc EXCEPT ![w] = "idle"]
               /\ wkw' = [wkw EXCEPT ![w] = EmptyDict]
               /\ lastCall' = [op |-> "cancel", id |-> J, kw |-> EmptyDict,
                               fault |-> "none"]
               /\ lastRet' = NoJob
               /\ wjob' = wjob
          ELSE /\ wpc' = [wpc EXCEPT ![w] = "save"]
               /\ wjob' = [wjob EXCEPT ![w] = job]
               /\ UNCHANGED <<wkw, lastCall, lastRet>>
    /\ UNCHANGED <<rstate, rhash, jfile, storeCalls>>
    /\ UNCHANGED <<jobVars, repoVars>>

\* update_job lines 189-194: setattr on the copy read before, _save_job
FinishUpdate(w) ==
    /\ wpc[w] = "save"
    /\ LET new == ApplyKwargs(wjob[w], wkw[w])
           s == SaveJob(rhash, jfile, rstate, new, "none")
       IN /\ rhash' = s.hash
          /\ jfile' = s.file
          /\ lastRet' = new
    /\ lastCall' = [op |-> "save", id |-> J, kw |-> wkw[w], fault |-> "none"]
    /\ wpc' = [wpc EXCEPT ![w] = "idle"]
    /\ wjob' = [wjob EXCEPT ![w] = NoJob]
    /\ wkw' = [wkw EXCEPT ![w] = EmptyDict]
    /\ UNCHANGED <<rstate, storeCalls>>
    /\ UNCHANGED <<jobVars, repoVars>>

RaceNext ==
    \/ \E p \in {"ok", "unset"} :
          \/ CreateJobCall(p, "none")
          \/ \E kw \in UpdateKw : BeginUpdate("runner", kw, p)
          \/ BeginCancel("client", p)
    \/ \E w \in Writers : ReadForUpdate(w)
    \/ \E w \in Writers : FinishUpdate(w)

RaceSpec == Init /\ [][RaceNext]_vars

\* C39: a field that another call has written since this call read the job
\* keeps its value when this call saves, unless this call names the field.
C39_NoLostUpdate ==
    [][\A w \in Writers :
          (wpc[w] = "save" /\ wpc'[w] = "idle") =>
             LET cur == GetJob(rhash, jfile, rstate, J, "none")
                 after == GetJob(rhash', jfile', rstate', J, "none")
             IN \A f \in JobFields \ DOMAIN wkw[w] :
                   cur[f] # wjob[w][f] => after[f] = cur[f]]_vars

\* ------------------------------------------------------------------------
\* jobs.py: list_jobs over several jobs
\* ------------------------------------------------------------------------

\* lines 202-232, mutated: the job files are listed whatever the backend
EnumeratedFiles(hash, file, r) ==
    {FromDict(file[id]) : id \in {i \in DOMAIN file : file[i] # NoFile}}
\* lines 202-232: the jobs list_jobs collects: with a Redis client the hash
\* of every key the scan finds (an empty hgetall is skipped), else the
\* content of every *.json file
Enumerated(hash, file, r) ==
    IF r = "client"
    THEN {FromDict(RedisDecode(hash[id])) :
             id \in {i \in DOMAIN hash : DOMAIN hash[i] # {}}}
    ELSE {FromDict(file[id]) : id \in {i \in DOMAIN file : file[i] # NoFile}}

\* lines 235-236: `if status:` keeps the jobs of that status; None and ""
\* do not filter
FilterStatus(jobs, status) ==
    IF Truthy(status)
    THEN {j \in jobs : Some(j.status) = status}
    ELSE jobs

\* line 239, mutated: reverse=True is left out
RECURSIVE SortByCreatedAtAsc(_)
SortByCreatedAtAsc(jobs) ==
    IF jobs = {} THEN <<>>
    ELSE LET m == CHOOSE j \in jobs :
                     \A k \in jobs : j.created_at <= k.created_at
         IN <<m>> \o SortByCreatedAtAsc(jobs \ {m})

\* line 239: jobs.sort(key=created_at, reverse=True)
RECURSIVE SortByCreatedAt(_)
SortByCreatedAt(jobs) ==
    IF jobs = {} THEN <<>>
    ELSE LET m == CHOOSE j \in jobs :
                     \A k \in jobs : k.created_at <= j.created_at
         IN <<m>> \o SortByCreatedAt(jobs \ {m})

\* line 241: jobs[:limit] for a limit >= 0
Truncate(seq, limit) ==
    SubSeq(seq, 1, IF limit < Len(seq) THEN limit ELSE Len(seq))

\* list_jobs lines 197-241
ListJobs(hash, file, r, limit, status) ==
    Truncate(SortByCreatedAt(FilterStatus(Enumerated(hash, file, r), status)),
             limit)

\* the arguments list_jobs is called with; 20 is the default limit
Limits == {0, 1, 2, 20}
StatusArgs == {Absent, Some("queued"), Some("running"), Some("failed")}

\* list_jobs(limit, status)
ListJobsCall(limit, status, probe) ==
    /\ storeCalls < MaxStoreCalls
    /\ LET r == GetRedis(rstate, probe)
       IN StoreCallEnds("list", "none",
             [limit |-> limit, status |-> status], "none", r,
             [hash |-> rhash, file |-> jfile,
              ret |-> [jobs |-> ListJobs(rhash, jfile, r, limit, status)]])

\* the status changes a runner or a client makes between two listings
ListKw == {[status |-> "running", nonexistent_field |-> "value"],
           [status |-> "failed", exit_code |-> Some(1)]}

ListNext ==
    \/ \E p \in {"ok", "unset"} :
          \/ \E id \in ListIds : CreateJobAs(id, p, "none")
          \/ \E id \in ListIds, kw \in ListKw : UpdateJobCall(id, kw, p, "none")
          \/ \E l \in Limits, s \in StatusArgs : ListJobsCall(l, s, p)
    \/ \E id \in ListIds : RedisKeyExpire(id)

ListSpec == Init /\ [][ListNext]_vars

\* ------------------------------------------------------------------------
\* Properties of list_jobs
\* ------------------------------------------------------------------------
\* the ids with a live record in the backend in use: a Redis key that has
\* not expired, or a job file in file-only mode
LiveIds(hash, file, r) ==
    {id \in ListIds : IF r = "client" THEN DOMAIN hash[id] # {}
                                       ELSE file[id] # NoFile}
\* the stored jobs, each as get_job returns it
StoredJobs(hash, file, r) ==
    {GetJob(hash, file, r, id, "none") : id \in LiveIds(hash, file, r)}
Min(a, b) == IF a < b THEN a ELSE b

\* C22: list_jobs(limit=k, status=s) over N stored jobs of that status (all
\* stored jobs when no status is given) returns exactly min(k, N) of them,
\* in strictly descending order of created_at.
C22_ListContract ==
    [][StoreCallOf({"list"}) =>
          LET stored == StoredJobs(rhash, jfile, rstate')
              s == lastCall'.kw.status
              match == IF s = Absent THEN stored
                       ELSE {j \in stored : Some(j.status) = s}
              res == lastRet'.jobs
          IN /\ Len(res) = Min(lastCall'.kw.limit, Cardinality(match))
             /\ \A i \in 1..Len(res) : res[i] \in match
             /\ \A i, j \in 1..Len(res) :
                   i < j => res[i].created_at > res[j].created_at]_vars

\* three jobs are stored and a listing with limit 2 returned the two newest
C22_Witness ==
    /\ lastCall.op = "list"
    /\ lastCall.kw = [limit |-> 2, status |-> Absent]
    /\ Cardinality(StoredJobs(rhash, jfile, rstate)) = 3
    /\ Len(lastRet.jobs) = 2

\* the ids of the jobs a listing returned
ListedIds(jobs) == {jobs[i].id : i \in 1..Len(jobs)}
\* the ids for which get_job returns a record
GettableIds(hash, file, r) ==
    {id \in ListIds : GetJob(hash, file, r, id, "none") # NoJob}

\* C38 as stated: every job for which get_job returns a record is returned
\* by list_jobs with no status filter and a limit of at least the number of
\* jobs, with or without the Redis backend and also after a key has expired.
C38_GetListAgree ==
    [][(StoreCallOf({"list"}) /\ lastCall'.kw.status = Absent) =>
          LET got == GettableIds(rhash, jfile, rstate')
          IN lastCall'.kw.limit >= Cardinality(got) =>
                got \subseteq ListedIds(lastRet'.jobs)]_vars

\* C38 amended: list_jobs with no status filter and a limit of at least the
\* number of jobs returns every job get_job finds in the backend in use
\* (the Redis hash when a client is configured, else the job file); a job
\* whose Redis key is gone is still returned by get_job, from its file, and
\* is not returned by list_jobs.
C38_GetListAgreePresent ==
    [][(StoreCallOf({"list"}) /\ lastCall'.kw.status = Absent) =>
          LET got == GettableIds(rhash, jfile, rstate')
              gone == {id \in got : rstate' = "client" /\ DOMAIN rhash[id] = {}}
          IN lastCall'.kw.limit >= Cardinality(got) =>
                /\ got \ gone \subseteq ListedIds(lastRet'.jobs)
                /\ gone \cap ListedIds(lastRet'.jobs) = {}]_vars

\* with a Redis client, a listing returned the job whose key is present and
\* left out the one whose key has expired and which get_job still finds
C38_Witness ==
    /\ lastCall.op = "list"
    /\ lastCall.kw = [limit |-> 20, status |-> Absent]
    /\ rstate = "client"
    /\ \E id, other \in ListIds :
          /\ DOMAIN rhash[id] = {}
          /\ GetJob(rhash, jfile, rstate, id, "none") # NoJob
          /\ DOMAIN rhash[other] # {}
          /\ ListedIds(lastRet.jobs) = {other}

\* ------------------------------------------------------------------------
\* jobs.py: Job.to_dict and Job.from_dict on their own
\* ------------------------------------------------------------------------
\* Job objects with every combination of optional fields set or None, the
\* set values including the falsy ones (0, "")
JobSamples ==
    {[id |-> "j1", repo_url |-> u, base_ref |-> "main", task |-> "task",
      profile |-> "code", status |-> st, mode |-> "sync",
      exit_code |-> ec, session_id |-> sid, pr_url |-> pr, output |-> out,
      error |-> err, created_at |-> 1, started_at |-> sa, ended_at |-> ea,
      ttl_seconds |-> 0, pid |-> pd] :
        u \in {"", "url"}, st \in {"queued", "failed"},
        ec \in {Absent, Some(0), Some(1)},
        sid \in {Absent, Some(""), Some("s1")},
        pr \in {Absent, Some("url")}, out \in {Absent, Some("")},
        err \in {Absent, Some("boom")}, sa \in {Absent, Some(1)},
        ea \in {Absent, Some(2)}, pd \in {Absent, Some(4242)}}

\* d = j.to_dict(); Job.from_dict(d), once for the job of the behaviour
RoundTrip(j) ==
    /\ lastCall.op = "none"
    /\ lastCall' = [op |-> "roundtrip", id |-> j.id, kw |-> j,
                    fault |-> "none"]
    /\ lastRet' = [dict |-> ToDict(j), job |-> FromDict(ToDict(j))]
    /\ UNCHANGED <<rstate, rhash, jfile, storeCalls>>
    /\ UNCHANGED <<jobVars, repoVars, writerVars>>

DictNext == \E j \in JobSamples : RoundTrip(j)

DictSpec == Init /\ [][DictNext]_vars

\* C23: from_dict(j.to_dict()) equals j in every field, a field that is
\* absent in j is absent in the result, and the keys of j.to_dict() are
\* exactly the fields of j that have a value.
C23_RoundTrip ==
    lastCall.op = "roundtrip" =>
        LET j == lastCall.kw
        IN /\ \A f \in JobFields : lastRet.job[f] = j[f]
           /\ \A f \in OptFields : j[f] = Absent => lastRet.job[f] = Absent
           /\ DOMAIN lastRet.dict =
                 {f \in JobFields : f \notin OptFields \/ j[f] # Absent}

\* a job with falsy optional values and absent ones went through the trip
C23_Witness ==
    /\ lastCall.op = "roundtrip"
    /\ lastCall.kw.exit_code = Some(0)
    /\ lastCall.kw.session_id = Some("")
    /\ lastCall.kw.error = Absent
    /\ lastCall.kw.pid = Absent
    /\ lastRet.job.exit_code = Some(0)
    /\ "error" \notin DOMAIN lastRet.dict

\* ------------------------------------------------------------------------
\* runner.py: the output and error texts run_job persists
\* ------------------------------------------------------------------------
\* A text is modelled by its number of characters.  TextSpec performs the
\* one write of output and error that ends a run_job, on each of its paths,
\* for a subprocess stdout of n characters and a stderr or exception
\* message of m characters.
OutputCap == 50000
ErrorCap == 10000
ClaudeTimeout == 3600          \* profile.claude.timeout
ClaudeBinary == "claude"       \* cfg.claude.binary

\* text[:cap]
Truncated(len, cap) == IF len > cap THEN cap ELSE len

StdoutLens == {0, 1, 49999, 50000, 50001, 60000}
MessageLens == {0, 1, 9999, 10000, 10001, 20000}
WritePaths == {"profile", "clone", "materialize", "timeout", "notfound",
               "error", "normal"}

\* the keyword arguments output= and error= of the update_job call that
\* ends run_job on the given path; a keyword that is not passed is Absent
\* and leaves the stored field at its initial None
WrittenTexts(path, n, m) ==
    CASE path = "profile" ->
           [output |-> Absent, error |-> Some(Len("Profile not found: ") + m)]
      [] path = "clone" ->
           [output |-> Absent, error |-> Some(Len("Clone failed: ") + m)]
      [] path = "materialize" ->
           [output |-> Absent,
            error |-> Some(Len("Profile materialization failed: ") + m)]
      [] path = "timeout" ->
           [output |-> Absent,
            error |-> Some(Len("Timeout after " \o ToString(ClaudeTimeout)
                                 \o "s"))]
      [] path = "notfound" ->
           [output |-> Absent,
            error |-> Some(Len("Claude binary not found: " \o ClaudeBinary))]
      [] path = "error" ->
           [output |-> Absent, error |-> Some(m)]
      [] path = "normal" ->
           [output |-> Some(Truncated(n, OutputCap)),
            error |-> IF m > 0 THEN Some(Truncated(m, ErrorCap)) ELSE Absent]

WriteTexts(path, n, m) ==
    /\ lastCall.op = "none"
    /\ path # "normal" => n = 0
    /\ path \in {"timeout", "notfound"} => m = 0
    /\ lastCall' = [op |-> "write_texts", id |-> J,
                    kw |-> [path |-> path, stdout |-> n, message |-> m],
                    fault |-> "none"]
    /\ lastRet' = WrittenTexts(path, n, m)
    /\ UNCHANGED <<rstate, rhash, jfile, storeCalls>>
    /\ UNCHANGED <<jobVars, repoVars, writerVars>>

TextNext ==
    \E path \in WritePaths, n \in StdoutLens, m \in MessageLens :
        WriteTexts(path, n, m)

TextSpec == Init /\ [][TextNext]_vars

\* C34: in every persisted job record the output has at most 50,000
\* characters and the error at most 10,000 characters, on every path of
\* run_job that writes them.
C34_TextsBounded ==
    lastCall.op = "write_texts" =>
        /\ \A len \in lastRet.output : len <= 50000
        /\ \A len \in lastRet.error : len <= 10000

\* ------------------------------------------------------------------------
\* repos.py: get_default_branch, and its call from _prepare_job_repo
\* ------------------------------------------------------------------------
\* The stripped stdout of "git symbolic-ref refs/remotes/origin/HEAD
\* --short" is a sequence of "/"-separated components, <<"origin", "main">>
\* for "origin/main" and <<"">> for an empty output.
MaxParts == 3        \* components of the git output
RefParts == {"", "origin", "main", "dev"}
RefOutputs == UNION {[1..n -> RefParts] : n \in 1..MaxParts}

RECURSIVE JoinSlash(_)
JoinSlash(parts) ==
    IF Len(parts) = 1 THEN parts[1]
    ELSE parts[1] \o "/" \o JoinSlash(Tail(parts))

\* _run_git: the completed process, or RuntimeError on a non-zero exit
RunGit(git) ==
    IF git.returncode # 0
    THEN [raised |-> Some("git failed: " \o git.stderr), stdout |-> <<"">>]
    ELSE [raised |-> Absent, stdout |-> git.stdout]

\* get_default_branch: the branch name, or the exception of _run_git
GetDefaultBranch(git) ==
    LET result == RunGit(git)
        branch == IF Len(result.stdout) > 1        \* "/" in branch
                  THEN JoinSlash(Tail(result.stdout))  \* split("/", 1)[1]
                  ELSE result.stdout[1]
    IN IF result.raised # Absent
       THEN [raised |-> result.raised, value |-> ""]
       ELSE [raised |-> Absent,
             value |-> IF branch = "" THEN "main" ELSE branch]

\* _prepare_job_repo: ensure_clone, then job.base_ref or the detected branch
PrepareJobRepo(base_ref, clone, git) ==
    IF clone # Absent
    THEN [raised |-> clone, value |-> ""]
    ELSE IF base_ref # ""
         THEN [raised |-> Absent, value |-> base_ref]
         ELSE GetDefaultBranch(git)

GitDefault == [returncode |-> 0, stdout |-> <<"origin", "main">>,
               stderr |-> ""]
GitResults ==
    [returncode : {0}, stdout : RefOutputs, stderr : {""}]
      \cup [returncode : {1, 128}, stdout : {<<"">>},
            stderr : {"", "fatal: ref refs/remotes/origin/HEAD is not a symbolic ref"}]

\* run_job from the call of _prepare_job_repo to the write of its failure:
\* the job either goes on with a base ref or is persisted as failed
PrepareStep(base_ref, clone, git) ==
    /\ lastCall.op = "none"
    /\ (clone # Absent \/ base_ref # "") => git = GitDefault
    /\ lastCall' = [op |-> "prepare", id |-> J,
                    kw |-> [base_ref |-> base_ref, clone |-> clone,
                            git |-> git],
                    fault |-> "none"]
    /\ lastRet' =
          LET r == PrepareJobRepo(base_ref, clone, git)
          IN IF r.raised # Absent
             THEN [status |-> "failed", base_ref |-> Absent,
                   error |-> {"Clone failed: " \o e : e \in r.raised}]
             ELSE [status |-> "running", base_ref |-> Some(r.value),
                   error |-> Absent]
    /\ UNCHANGED <<rstate, rhash, jfile, storeCalls>>
    /\ UNCHANGED <<jobVars, repoVars, writerVars>>

BranchNext ==
    \E base_ref \in {"", "main", "dev"},
       clone \in {Absent} \cup {Some(m) : m \in ErrMsgs},
       git \in GitResults :
        PrepareStep(base_ref, clone, git)

BranchSpec == Init /\ [][BranchNext]_vars

\* C35: get_default_branch returns "main" whenever the git command exits
\* non-zero or prints no branch name, so a job with an empty base_ref whose
\* clone succeeded goes on with base ref "main" instead of failing.
C35_DefaultBranchMain ==
    (/\ lastCall.op = "prepare"
     /\ lastCall.kw.base_ref = ""
     /\ lastCall.kw.clone = Absent
     /\ \/ lastCall.kw.git.returncode # 0
        \/ lastCall.kw.git.stdout = <<"">>) =>
        /\ lastRet.status = "running"
        /\ lastRet.base_ref = Some("main")

\* ------------------------------------------------------------------------
\* repos.py: ensure_clone
\* ------------------------------------------------------------------------

\* fcntl.flock(LOCK_EX) line 132, mutated: the call does not block
FlockNoWait(holder) == TRUE
\* fcntl.flock(LOCK_EX) line 132 returns only while nobody holds the lock
FlockFree(holder) == holder = 0

\* _do_clone_or_fetch line 117, mutated: the .git test is dropped
ChooseOpAlwaysClone(r) == "clone"
\* _do_clone_or_fetch lines 117-121: fetch when repo/.git exists, else clone
ChooseOp(r) == IF r \in {"partial", "cloned"} THEN "fetch" ELSE "clone"

\* the finally clauses of lines 92-93 and 135-136, mutated: the lock is
\* released only when fn() returned normally
ReleaseOnlyOnSuccess(fnOk) == fnOk
\* the finally clauses of lines 92-93 and 135-136: released on every exit
ReleaseOnExit(fnOk) == TRUE

RedisHeldBy(c) == rkey # NoKey /\ rkey.owner = c

\* ensure_clone lines 107-131: mkdir, then the branch on the lock mode
Call(c) ==
    /\ cpc[c] \in {"idle", "done"}
    /\ calls < MaxCalls
    /\ calls' = calls + 1
    /\ cpc' = [cpc EXCEPT ![c] = IF sharedFs THEN "r_try" ELSE "f_wait"]
    /\ op' = [op EXCEPT ![c] = "none"]
    /\ hasLock' = [hasLock EXCEPT ![c] = FALSE]
    /\ deadlinePassed' = [deadlinePassed EXCEPT ![c] = FALSE]
    /\ fnRuns' = [fnRuns EXCEPT ![c] = 0]
    /\ outcome' = [outcome EXCEPT ![c] = "none"]
    /\ enteredAfterClone' = [enteredAfterClone EXCEPT ![c] = FALSE]
    /\ UNCHANGED <<sharedFs, flock, rkey, repo, cloneOk>>
    /\ UNCHANGED <<jobVars, backendVars>>

\* ensure_clone line 132: fcntl.flock(lockfile, LOCK_EX)
FlockAcquire(c) ==
    /\ cpc[c] = "f_wait"
    /\ FlockFree(flock)
    /\ flock' = c
    /\ cpc' = [cpc EXCEPT ![c] = "fn"]
    /\ UNCHANGED <<sharedFs, rkey, repo, op, hasLock, deadlinePassed, fnRuns,
                   calls, outcome, cloneOk, enteredAfterClone>>
    /\ UNCHANGED <<jobVars, backendVars>>

\* _redis_lock_acquire lines 48-61: SET NX EX; False when REDIS_URL is
\* unset or the store cannot be reached (up = FALSE)
RedisAcquire(c, up) ==
    /\ cpc[c] = "r_try"
    /\ IF up /\ rkey = NoKey
       THEN /\ rkey' = [present |-> TRUE, owner |-> c, stale |-> FALSE]
            /\ hasLock' = [hasLock EXCEPT ![c] = TRUE]
            /\ cpc' = [cpc EXCEPT ![c] = "fn"]
       ELSE /\ cpc' = [cpc EXCEPT ![c] = "r_deadline"]
            /\ UNCHANGED <<rkey, hasLock>>
    /\ UNCHANGED <<sharedFs, flock, repo, op, deadlinePassed, fnRuns,
                   calls, outcome, cloneOk, enteredAfterClone>>
    /\ UNCHANGED <<jobVars, backendVars>>

\* _with_redis_lock lines 94-97: first read of the clock; past the deadline
\* fn() is run without the lock
DeadlineCheck(c) ==
    /\ cpc[c] = "r_deadline"
    /\ cpc' = [cpc EXCEPT ![c] = IF deadlinePassed[c] THEN "fn" ELSE "r_sleep"]
    /\ UNCHANGED <<sharedFs, flock, rkey, repo, op, hasLock, deadlinePassed,
                   fnRuns, calls, outcome, cloneOk, enteredAfterClone>>
    /\ UNCHANGED <<jobVars, backendVars>>

\* _with_redis_lock lines 98-99: second read of the clock inside
\* time.sleep(min(delay, deadline - time.monotonic())); a negative length
\* makes time.sleep raise ValueError (late), a zero length returns at once
Sleep(c, late) ==
    /\ cpc[c] = "r_sleep"
    /\ IF deadlinePassed[c] /\ late
       THEN /\ cpc' = [cpc EXCEPT ![c] = "done"]
            /\ outcome' = [outcome EXCEPT ![c] = "raised"]
            /\ deadlinePassed' = [deadlinePassed EXCEPT ![c] = FALSE]
       ELSE /\ cpc' = [cpc EXCEPT ![c] = "r_try"]
            /\ UNCHANGED <<outcome, deadlinePassed>>
    /\ UNCHANGED <<sharedFs, flock, rkey, repo, op, hasLock,
                   fnRuns, calls, cloneOk, enteredAfterClone>>
    /\ UNCHANGED <<jobVars, backendVars>>

\* time passes: the deadline of line 86 is reached while the caller polls
Tick(c) ==
    /\ cpc[c] \in {"r_try", "r_deadline", "r_sleep"}
    /\ ~deadlinePassed[c]
    /\ deadlinePassed' = [deadlinePassed EXCEPT ![c] = TRUE]
    /\ UNCHANGED <<sharedFs, cpc, flock, rkey, repo, op, hasLock, fnRuns,
                   calls, outcome, cloneOk, enteredAfterClone>>
    /\ UNCHANGED <<jobVars, backendVars>>

\* the lease of line 59 (ex=ttl) runs out: Redis drops the key
LeaseExpire ==
    /\ rkey # NoKey
    /\ rkey' = NoKey
    /\ UNCHANGED <<sharedFs, cpc, flock, repo, op, hasLock, deadlinePassed,
                   fnRuns, calls, outcome, cloneOk, enteredAfterClone>>
    /\ UNCHANGED <<jobVars, backendVars>>

\* _do_clone_or_fetch lines 116-121: the test of repo/.git picks the command
EnterFn(c) ==
    /\ cpc[c] = "fn"
    /\ op' = [op EXCEPT ![c] = ChooseOp(repo)]
    /\ fnRuns' = [fnRuns EXCEPT ![c] = @ + 1]
    /\ enteredAfterClone' = [enteredAfterClone EXCEPT ![c] = cloneOk > 0]
    /\ cpc' = [cpc EXCEPT ![c] = "git_start"]
    /\ UNCHANGED <<sharedFs, flock, rkey, repo, hasLock, deadlinePassed,
                   calls, outcome, cloneOk>>
    /\ UNCHANGED <<jobVars, backendVars>>

\* _run_git line 143: git starts. git clone creates the destination
\* directory itself and exits non-zero when it already exists non-empty.
GitStart(c) ==
    /\ cpc[c] = "git_start"
    /\ IF op[c] = "clone" /\ repo # "absent"
       THEN /\ cpc' = [cpc EXCEPT ![c] = "fn_done"]
            /\ outcome' = [outcome EXCEPT ![c] = "raised"]
            /\ repo' = repo
       ELSE /\ cpc' = [cpc EXCEPT ![c] = "git_run"]
            /\ outcome' = outcome
            /\ repo' = IF op[c] = "clone" THEN "partial" ELSE repo
    /\ UNCHANGED <<sharedFs, flock, rkey, op, hasLock, deadlinePassed, fnRuns,
                   calls, cloneOk, enteredAfterClone>>
    /\ UNCHANGED <<jobVars, backendVars>>

\* _run_git lines 143-154: git ends. res: "ok" | "nonzero" (RuntimeError) |
\* "timeout" (subprocess.TimeoutExpired after 300 s, git is killed).
\* A clone that exits non-zero removes what it created; a killed one cannot.
GitFinish(c, res) ==
    /\ cpc[c] = "git_run"
    /\ repo' = IF op[c] = "clone"
               THEN (IF res = "ok" THEN "cloned"
                     ELSE IF res = "nonzero" THEN "absent" ELSE "partial")
               ELSE repo
    /\ cloneOk' = IF op[c] = "clone" /\ res = "ok" THEN cloneOk + 1 ELSE cloneOk
    /\ outcome' = [outcome EXCEPT ![c] = IF res = "ok" THEN "returned" ELSE "raised"]
    /\ cpc' = [cpc EXCEPT ![c] = "fn_done"]
    /\ UNCHANGED <<sharedFs, flock, rkey, op, hasLock, deadlinePassed, fnRuns,
                   calls, enteredAfterClone>>
    /\ UNCHANGED <<jobVars, backendVars>>

\* ensure_clone line 138 / _with_redis_lock lines 91, 97: the frame of the
\* call is left, its locals (the chosen command, the deadline) are gone
Leave(c) ==
    /\ op' = [op EXCEPT ![c] = "none"]
    /\ deadlinePassed' = [deadlinePassed EXCEPT ![c] = FALSE]
    /\ enteredAfterClone' = [enteredAfterClone EXCEPT ![c] = FALSE]

\* ensure_clone lines 135-138: finally LOCK_UN, then return or re-raise
FlockRelease(c) ==
    /\ cpc[c] = "fn_done"
    /\ ~sharedFs
    /\ flock' = IF ReleaseOnExit(outcome[c] = "returned") THEN 0 ELSE flock
    /\ cpc' = [cpc EXCEPT ![c] = "done"]
    /\ Leave(c)
    /\ UNCHANGED <<sharedFs, rkey, repo, hasLock, fnRuns, calls, outcome, cloneOk>>
    /\ UNCHANGED <<jobVars, backendVars>>

\* _with_redis_lock lines 92-93 and _redis_lock_release lines 64-77:
\* r.delete(lock_key) whoever set the key; an unreachable store
\* (up = FALSE) is swallowed and leaves the key to its lease
RedisRelease(c, up) ==
    /\ cpc[c] = "fn_done"
    /\ sharedFs
    /\ hasLock[c]
    /\ rkey' = IF ~ReleaseOnExit(outcome[c] = "returned") THEN rkey
               ELSE IF up THEN NoKey
               ELSE IF RedisHeldBy(c) THEN [rkey EXCEPT !.stale = TRUE]
               ELSE rkey
    /\ cpc' = [cpc EXCEPT ![c] = "done"]
    /\ Leave(c)
    /\ UNCHANGED <<sharedFs, flock, repo, hasLock, fnRuns, calls, outcome, cloneOk>>
    /\ UNCHANGED <<jobVars, backendVars>>

\* _with_redis_lock line 97: fn() was run without the lock, nothing to release
ReturnUnlocked(c) ==
    /\ cpc[c] = "fn_done"
    /\ sharedFs
    /\ ~hasLock[c]
    /\ cpc' = [cpc EXCEPT ![c] = "done"]
    /\ Leave(c)
    /\ UNCHANGED <<sharedFs, flock, rkey, repo, hasLock, fnRuns, calls, outcome, cloneOk>>
    /\ UNCHANGED <<jobVars, backendVars>>

RepoNext ==
    \/ \E c \in Callers :
          \/ Call(c)
          \/ FlockAcquire(c)
          \/ \E up \in BOOLEAN : RedisAcquire(c, up)
          \/ DeadlineCheck(c)
          \/ \E late \in BOOLEAN : Sleep(c, late)
          \/ Tick(c)
          \/ EnterFn(c)
          \/ GitStart(c)
          \/ \E res \in {"ok", "nonzero", "timeout"} : GitFinish(c, res)
          \/ FlockRelease(c)
          \/ \E up \in BOOLEAN : RedisRelease(c, up)
          \/ ReturnUnlocked(c)
    \/ LeaseExpire

RepoSpec == Init /\ [][RepoNext]_vars

\* ------------------------------------------------------------------------
\* Properties of the repository cache
\* ------------------------------------------------------------------------
InFn(c) == cpc[c] \in {"fn", "git_start", "git_run"}
CallOver(c) == cpc[c] = "done"

\* C6: in local lock mode no two callers are inside the clone-or-fetch
\* section of one repository key at the same time: whoever is inside holds
\* the flock.
C6_LocalMutualExclusion ==
    ~sharedFs =>
       /\ \A c \in Callers : InFn(c) => flock = c
       /\ Cardinality({c \in Callers : InFn(c)}) <= 1

\* one caller is running git while another is blocked in flock
C6_Witness ==
    /\ ~sharedFs
    /\ \E c, d \in Callers : cpc[c] = "git_run" /\ cpc[d] = "f_wait"

C9_RunsExactlyOnce ==
    sharedFs =>
       \A c \in Callers :
          /\ fnRuns[c] <= 1
          /\ CallOver(c) => fnRuns[c] = 1

\* C36: in distributed lock mode, while a caller that acquired the lock is
\* inside its clone-or-fetch, no other caller enters its own clone-or-fetch
\* unless that other caller's deadline has passed.
C36_DistributedExclusion ==
    [][\A c, d \in Callers :
          (/\ c # d
           /\ sharedFs
           /\ InFn(d) /\ hasLock[d]
           /\ cpc[c] # "fn" /\ cpc'[c] = "fn") => deadlinePassed[c]]_vars

\* C40: in distributed lock mode the release at the end of a call removes
\* only the key this caller set: a key that another caller holds at that
\* moment is left as it is.
C40_ReleaseOwnLockOnly ==
    [][\A c \in Callers :
          (/\ sharedFs
           /\ cpc[c] = "fn_done" /\ cpc'[c] = "done"
           /\ rkey # NoKey /\ ~RedisHeldBy(c)) => rkey' = rkey]_vars

====
